---- MODULE Spec2Model ----
(***************************************************************************)
(* factorio-bp-editor: the BlueprintEditor and BlueprintBookEditor classes *)
(* of src/src/factorio_bp_editor/editor.py as a state machine.             *)
(*                                                                         *)
(* One editor owns one blueprint (label, description, icons, entities,     *)
(* tiles); one book editor owns one book (label, description, icons,       *)
(* blueprints).  Every public method is one action.  Each action records   *)
(* the call it models in `call`, the value it returns in `ret` and the      *)
(* exception it raises, if any, in `raised`.                               *)
(*                                                                         *)
(* Python objects have identity.  The entity list holds references, so     *)
(* `entities` is a sequence of references into `heap`, the sequence of     *)
(* the entity objects the list refers to.  References are only ever        *)
(* compared with each other, so objects are numbered in the order of       *)
(* their first occurrence in the list (Canon).                             *)
(*                                                                         *)
(* Record constructors list their fields in the order TLC sorts them in    *)
(* (the order in which the names first occur in this module), so that a    *)
(* record shared by TLC's workers is never re-sorted while it is read.     *)
(***************************************************************************)
EXTENDS Integers, Sequences, FiniteSets, TLC

VARIABLES
    entities,        \* self.blueprint.entities: sequence of references into heap
    heap,            \* the entity objects referred to, by reference
    tiles,           \* self.blueprint.tiles
    label,           \* self.blueprint.label        (Optional)
    description,     \* self.blueprint.description  (Optional)
    icons,           \* self.blueprint.icons        (Optional)
    blueprints,      \* self.book.blueprints
    book_label,      \* self.book.label
    book_description,\* self.book.description
    book_icons,      \* self.book.icons
    call,            \* the last method call: [op, arguments]
    ret,             \* what that call returned
    raised,          \* the exception that call raised, None when it returned
    held,            \* the list the caller kept of a find_entities result: its
                     \* references, or "same" when it is the entity list itself
    loop             \* the caller's "for e in held" loop, None when it runs none

blueprint_vars == <<entities, heap, tiles, label, description, icons>>
book_vars == <<blueprints, book_label, book_description, book_icons>>
caller_vars == <<held, loop>>
vars == <<entities, heap, tiles, label, description, icons,
          blueprints, book_label, book_description, book_icons, call, ret, raised,
          held, loop>>

----------------------------------------------------------------------------
(* Python values *)

\* Optional[T]: None is the empty tuple, a present value x is <<x>>.
None == <<>>
Some(x) == <<x>>

\* bool(x) of an Optional[str]: None and "" are falsy.
Truthy(x) == x # None /\ x[1] # ""

Range(s) == {s[i] : i \in 1..Len(s)}

Min(S) == CHOOSE m \in S : \A n \in S : m <= n

\* a changed RemoveAt: del s[i:], the slice from i on
RemoveFrom(s, i) == SubSeq(s, 1, i - 1)

\* del s[i] / s.pop(i), with i a 1-based position of s
RemoveAt(s, i) == [j \in 1..(Len(s) - 1) |-> IF j < i THEN s[j] ELSE s[j + 1]]

\* s with x put before the 1-based position i (i = Len(s)+1 appends)
InsertAt(s, i, x) ==
    [j \in 1..(Len(s) + 1) |-> IF j < i THEN s[j] ELSE IF j = i THEN x ELSE s[j - 1]]

\* the references of s in the order of their first occurrence
RECURSIVE FirstOccurrences(_)
FirstOccurrences(s) ==
    IF s = <<>> THEN <<>>
    ELSE LET front == FirstOccurrences(SubSeq(s, 1, Len(s) - 1))
             last == s[Len(s)]
         IN IF last \in Range(front) THEN front ELSE Append(front, last)

IndexIn(s, x) == Min({i \in 1..Len(s) : s[i] = x})

\* The same lists and objects with the objects numbered by first occurrence,
\* in the entity list and then in the caller's list; objects neither list
\* refers to any more are dropped.
Canon(ents, hld, hp) ==
    LET order == FirstOccurrences(ents \o hld)
    IN [entities |-> [i \in 1..Len(ents) |-> IndexIn(order, ents[i])],
        heap |-> [r \in 1..Len(order) |-> hp[order[r]]],
        held |-> [i \in 1..Len(hld) |-> IndexIn(order, hld[i])]]

----------------------------------------------------------------------------
(* Entities, as the editor reads them: id, name, position and, for the     *)
(* classes that have it, direction.                                         *)

\* hasattr(entity, "direction")
HasDirection(e) == "direction" \in DOMAIN e

\* entity.to_dict(): the entity's fields as keyword arguments, the position
\* as a nested {"x", "y"} mapping.
to_dict(e) ==
    LET pos == [x |-> e.position[1], y |-> e.position[2]]
    IN IF HasDirection(e)
       THEN [position |-> pos, id |-> e.id, name |-> e.name, direction |-> e.direction]
       ELSE [position |-> pos, id |-> e.id, name |-> e.name]

\* entity_class(**entity_data): a new object of the class cls
construct(cls, data) ==
    LET pos == <<data.position.x, data.position.y>>
    IN IF "direction" \in DOMAIN data
       THEN [cls |-> cls, id |-> data.id, name |-> data.name, position |-> pos,
             direction |-> data.direction]
       ELSE [cls |-> cls, id |-> data.id, name |-> data.name, position |-> pos]

----------------------------------------------------------------------------
(* BlueprintEditor *)

\* Blueprint(): no label, description or icons, no entities, no tiles
EmptyBlueprint ==
    [entities |-> <<>>, tiles |-> <<>>, label |-> None,
     description |-> None, icons |-> None]

\* the blueprint the string "0eNqBlueprint" stands for
DecodedBlueprint ==
    [entities |-> <<[position |-> <<0, 0>>, id |-> "e1", name |-> "wooden-chest",
                     cls |-> "Container"]>>,
     tiles |-> <<>>, label |-> Some("A"), description |-> None, icons |-> None]

\* Blueprint(blueprint_string) of the external library: the blueprint the
\* string decodes to, or the decode error it raises for a string that is not
\* a blueprint's ("" and "not a blueprint" are malformed, "0eNqBook" is the
\* string of a book).
Blueprint_decode(blueprint_string) ==
    IF blueprint_string = "0eNqBlueprint"
    THEN [raised |-> None, value |-> Some(DecodedBlueprint)]
    ELSE IF blueprint_string = "0eNqBook"
    THEN [raised |-> Some("IncorrectBlueprintTypeError"), value |-> None]
    ELSE [raised |-> Some("MalformedBlueprintStringError"), value |-> None]

\* BlueprintEditor.__init__: "if blueprint_string:" decides between
\* Blueprint(blueprint_string) and Blueprint()
BlueprintEditor_init_result(blueprint_string) ==
    IF Truthy(blueprint_string) THEN Blueprint_decode(blueprint_string[1])
    ELSE [raised |-> None, value |-> Some(EmptyBlueprint)]

\* editor = BlueprintEditor(blueprint_string): when the constructor returns,
\* the editor is the new one, whose blueprint holds new entity objects; when
\* it raises, no editor is made and the caller is left with what it had.
BlueprintEditor_init(blueprint_string) ==
    LET made == BlueprintEditor_init_result(blueprint_string)
        bp == made.value[1]
        post == Canon([i \in 1..Len(bp.entities) |-> Len(heap) + i], held.list,
                      heap \o bp.entities)
    IN /\ call' = [op |-> "BlueprintEditor.__init__", source |-> blueprint_string]
       /\ raised' = made.raised
       /\ ret' = None
       /\ IF made.raised = None
          THEN /\ entities' = post.entities
               /\ heap' = post.heap
               /\ held' = [held EXCEPT !.list = post.held]
               /\ tiles' = bp.tiles
               /\ label' = bp.label
               /\ description' = bp.description
               /\ icons' = bp.icons
          ELSE UNCHANGED <<blueprint_vars, held>>
       /\ UNCHANGED loop
       /\ UNCHANGED book_vars

\* the positions (1-based) of the entities whose id is entity_id
IdMatches(ents, hp, entity_id) ==
    {i \in 1..Len(ents) : hp[ents[i]].id = entity_id}

\* a changed add_entity_append: the entity is put first
add_entity_insert_first(ents, hp, obj, value) ==
    IF obj = 0
    THEN [entities |-> <<Len(hp) + 1>> \o ents, heap |-> Append(hp, value)]
    ELSE [entities |-> <<obj>> \o ents, heap |-> hp]

\* add_entity: self.blueprint.entities.append(entity).  The argument is an
\* object: obj = 0 with a value stands for an object not in the list, and
\* obj = r > 0 for the object heap[r] the list already holds.
add_entity_append(ents, hp, obj, value) ==
    IF obj = 0
    THEN [entities |-> Append(ents, Len(hp) + 1), heap |-> Append(hp, value)]
    ELSE [entities |-> Append(ents, obj), heap |-> hp]

add_entity(obj, value) ==
    LET appended == add_entity_append(entities, heap, obj, value)
        post == Canon(appended.entities, held.list, appended.heap)
    IN /\ entities' = post.entities
       /\ heap' = post.heap
       /\ held' = [held EXCEPT !.list = post.held]
       /\ UNCHANGED loop
       /\ raised' = None
       /\ call' = [value |-> value, op |-> "add_entity", obj |-> obj]
       /\ ret' = None
       /\ UNCHANGED <<tiles, label, description, icons>>
       /\ UNCHANGED book_vars

\* a changed remove_entity_scan: the positions are counted from one too far
remove_entity_scan_shifted(ents, hp, entity_id) ==
    IF IdMatches(ents, hp, entity_id) = {} THEN 0
    ELSE IF Min(IdMatches(ents, hp, entity_id)) = Len(ents) THEN Len(ents)
    ELSE Min(IdMatches(ents, hp, entity_id)) + 1

\* remove_entity: the first position whose entity has the id, 0 when none
remove_entity_scan(ents, hp, entity_id) ==
    IF IdMatches(ents, hp, entity_id) = {} THEN 0
    ELSE Min(IdMatches(ents, hp, entity_id))

\* remove_entity, but for the caller's loop, which the caller advances
remove_entity_call(entity_id) ==
    LET i == remove_entity_scan(entities, heap, entity_id)
        post == IF i = 0 THEN [entities |-> entities, heap |-> heap, held |-> held.list]
                ELSE Canon(RemoveAt(entities, i), held.list, heap)
    IN /\ entities' = post.entities
       /\ heap' = post.heap
       /\ held' = [held EXCEPT !.list = post.held]
       /\ raised' = None
       /\ call' = [op |-> "remove_entity", entity_id |-> entity_id]
       /\ ret' = (i # 0)
       /\ UNCHANGED <<tiles, label, description, icons>>
       /\ UNCHANGED book_vars

remove_entity(entity_id) == remove_entity_call(entity_id) /\ UNCHANGED loop

\* find_entities: the entities whose name is the filter when the filter is
\* truthy, a copy of the whole list otherwise; the result holds references.
find_entities_result(ents, hp, entity_type) ==
    IF Truthy(entity_type)
    THEN SelectSeq(ents, LAMBDA r : hp[r].name = entity_type[1])
    ELSE ents

find_entities(entity_type) ==
    /\ raised' = None
    /\ call' = [op |-> "find_entities", entity_type |-> entity_type]
    /\ ret' = find_entities_result(entities, heap, entity_type)
    /\ UNCHANGED blueprint_vars
    /\ UNCHANGED book_vars
    /\ UNCHANGED caller_vars

\* a changed find_entities_new_list: "return self.blueprint.entities"
\* without a filter
find_entities_same_list(entity_type) == Truthy(entity_type)

\* find_entities: whether the list returned is a new list object; both the
\* comprehension and list(...) make one
find_entities_new_list(entity_type) == TRUE

\* the caller's list, as references
HeldList == IF held.same THEN entities ELSE held.list

\* found = editor.find_entities(entity_type): find_entities with the caller
\* keeping the list it returns, in the place of the list it kept before; but
\* for the caller's loop, which the caller starts
find_entities_kept_call(entity_type) ==
    LET found == find_entities_result(entities, heap, entity_type)
        new_list == find_entities_new_list(entity_type)
        post == Canon(entities, IF new_list THEN found ELSE <<>>, heap)
    IN /\ raised' = None
       /\ call' = [op |-> "find_entities", entity_type |-> entity_type]
       /\ ret' = IF new_list THEN post.held ELSE post.entities
       /\ held' = [list |-> post.held, same |-> ~new_list]
       /\ entities' = post.entities
       /\ heap' = post.heap
       /\ UNCHANGED <<tiles, label, description, icons>>
       /\ UNCHANGED book_vars

find_entities_kept(entity_type) == find_entities_kept_call(entity_type) /\ UNCHANGED loop

\* found.pop(): the caller takes the last element off the list it kept
held_pop ==
    LET front == SubSeq(HeldList, 1, Len(HeldList) - 1)
        post == IF held.same THEN Canon(front, <<>>, heap)
                ELSE Canon(entities, front, heap)
    IN /\ HeldList # <<>>
       /\ raised' = None
       /\ call' = [op |-> "found.pop"]
       /\ ret' = None
       /\ held' = [held EXCEPT !.list = post.held]
       /\ entities' = post.entities
       /\ heap' = post.heap
       /\ UNCHANGED <<tiles, label, description, icons>>
       /\ UNCHANGED book_vars
       /\ UNCHANGED loop

\* a changed move_entity_rebuild: the new y is taken from the old x
move_entity_rebuild_swapped(entity, dx, dy) ==
    LET entity_data == to_dict(entity)
        current_pos == entity.position
        moved == [entity_data EXCEPT !.position.x = current_pos[1] + dx,
                                     !.position.y = current_pos[1] + dy]
    IN construct(entity.cls, moved)

\* move_entity: the entity built from the located entity's data with the
\* position shifted by (dx, dy)
move_entity_rebuild(entity, dx, dy) ==
    LET entity_data == to_dict(entity)
        current_pos == entity.position
        moved == [entity_data EXCEPT !.position.x = current_pos[1] + dx,
                                     !.position.y = current_pos[2] + dy]
    IN construct(entity.cls, moved)

\* move_entity: the first position whose entity has the id, 0 when none
move_entity_scan(ents, hp, entity_id) ==
    IF IdMatches(ents, hp, entity_id) = {} THEN 0
    ELSE Min(IdMatches(ents, hp, entity_id))

\* a changed move_entity_replace: entities.insert(i, new_entity), the
\* located entity staying behind it
move_entity_insert(ents, hp, i, new_entity) ==
    [entities |-> InsertAt(ents, i, Len(hp) + 1), heap |-> Append(hp, new_entity)]

\* self.blueprint.entities[i] = new_entity, a new object; i is 1-based
move_entity_replace(ents, hp, i, new_entity) ==
    [entities |-> [ents EXCEPT ![i] = Len(hp) + 1], heap |-> Append(hp, new_entity)]

move_entity(entity_id, dx, dy) ==
    LET i == move_entity_scan(entities, heap, entity_id)
        new_entity == move_entity_rebuild(heap[entities[i]], dx, dy)
        replaced == move_entity_replace(entities, heap, i, new_entity)
        post == IF i = 0 THEN [entities |-> entities, heap |-> heap, held |-> held.list]
                ELSE Canon(replaced.entities, held.list, replaced.heap)
    IN /\ entities' = post.entities
       /\ heap' = post.heap
       /\ held' = [held EXCEPT !.list = post.held]
       /\ UNCHANGED loop
       /\ raised' = None
       /\ call' = [op |-> "move_entity", entity_id |-> entity_id, dx |-> dx, dy |-> dy]
       /\ ret' = (i # 0)
       /\ UNCHANGED <<tiles, label, description, icons>>
       /\ UNCHANGED book_vars

\* a changed rotate_entity_scan: the first entity with the id decides
rotate_entity_scan_first(ents, hp, entity_id) ==
    LET hits == IdMatches(ents, hp, entity_id)
    IN IF hits = {} THEN 0
       ELSE IF HasDirection(hp[ents[Min(hits)]]) THEN Min(hits) ELSE 0

\* rotate_entity: the first position whose entity has the id and has a
\* direction attribute, 0 when none
rotate_entity_scan(ents, hp, entity_id) ==
    LET hits == {i \in IdMatches(ents, hp, entity_id) : HasDirection(hp[ents[i]])}
    IN IF hits = {} THEN 0 ELSE Min(hits)

\* a changed rotate_entity_assign: every entity with the same id is turned
rotate_entity_assign_all(hp, r, direction) ==
    [q \in 1..Len(hp) |->
        IF hp[q].id = hp[r].id /\ HasDirection(hp[q])
        THEN [hp[q] EXCEPT !.direction = direction]
        ELSE hp[q]]

\* entity.direction = direction, on the object itself
rotate_entity_assign(hp, r, direction) ==
    [hp EXCEPT ![r] = [hp[r] EXCEPT !.direction = direction]]

rotate_entity(entity_id, direction) ==
    LET i == rotate_entity_scan(entities, heap, entity_id)
    IN /\ heap' = IF i = 0 THEN heap
                  ELSE rotate_entity_assign(heap, entities[i], direction)
       /\ raised' = None
       /\ call' = [direction |-> direction, op |-> "rotate_entity",
                   entity_id |-> entity_id]
       /\ ret' = (i # 0)
       /\ UNCHANGED <<entities, tiles, label, description, icons>>
       /\ UNCHANGED book_vars
       /\ UNCHANGED caller_vars

\* add_tile: self.blueprint.tiles.append(tile)
add_tile(tile) ==
    /\ tiles' = Append(tiles, tile)
    /\ raised' = None
    /\ call' = [op |-> "add_tile", tile |-> tile]
    /\ ret' = None
    /\ UNCHANGED <<entities, heap, label, description, icons>>
    /\ UNCHANGED book_vars
    /\ UNCHANGED caller_vars

\* a changed set_metadata_field: the field is assigned whatever was passed
set_metadata_field_replace(old, given) == given

\* "if x is not None: field = x", for each of the three fields
set_metadata_field(old, given) == IF given # None THEN given ELSE old

set_metadata(label_, description_, icons_) ==
    /\ label' = set_metadata_field(label, label_)
    /\ description' = set_metadata_field(description, description_)
    /\ icons' = set_metadata_field(icons, icons_)
    /\ raised' = None
    /\ call' = [label |-> label_, description |-> description_,
                icons |-> icons_, op |-> "set_metadata"]
    /\ ret' = None
    /\ UNCHANGED <<entities, heap, tiles>>
    /\ UNCHANGED book_vars
    /\ UNCHANGED caller_vars

\* a changed get_stats_counts: entity_counts.get(name, 1)
RECURSIVE get_stats_counts_from_one(_, _)
get_stats_counts_from_one(ents, hp) ==
    IF ents = <<>> THEN <<>>
    ELSE LET entity_counts == get_stats_counts_from_one(SubSeq(ents, 1, Len(ents) - 1), hp)
             name == hp[ents[Len(ents)]].name
             old == IF name \in DOMAIN entity_counts THEN entity_counts[name] ELSE 1
         IN [n \in DOMAIN entity_counts \cup {name} |->
                IF n = name THEN old + 1 ELSE entity_counts[n]]

\* get_stats: the loop "entity_counts[name] = entity_counts.get(name, 0) + 1"
\* over the entities, front to back; a dict is a function on its keys.
RECURSIVE get_stats_counts(_, _)
get_stats_counts(ents, hp) ==
    IF ents = <<>> THEN <<>>
    ELSE LET entity_counts == get_stats_counts(SubSeq(ents, 1, Len(ents) - 1), hp)
             name == hp[ents[Len(ents)]].name
             old == IF name \in DOMAIN entity_counts THEN entity_counts[name] ELSE 0
         IN [n \in DOMAIN entity_counts \cup {name} |->
                IF n = name THEN old + 1 ELSE entity_counts[n]]

get_stats_result(ents, hp, tls, lbl, desc) ==
    [entity_counts |-> get_stats_counts(ents, hp),
     total_entities |-> Len(ents),
     total_tiles |-> Len(tls),
     has_label |-> Truthy(lbl),
     has_description |-> Truthy(desc)]

get_stats ==
    /\ raised' = None
    /\ call' = [op |-> "get_stats"]
    /\ ret' = get_stats_result(entities, heap, tiles, label, description)
    /\ UNCHANGED blueprint_vars
    /\ UNCHANGED book_vars
    /\ UNCHANGED caller_vars

\* The examples' removal by type:
\*     inserters = editor.find_entities("inserter")
\*     for inserter in inserters:
\*         editor.remove_entity(inserter.id)
\* loop is None outside the loop; inside it, it holds the filter, the entity
\* list as find_entities found it, and how many elements of the kept list
\* the loop has been through.
filter_begin(entity_type) ==
    /\ loop = None
    /\ find_entities_kept_call(Some(entity_type))
    /\ loop' = Some([entity_type |-> entity_type, at |-> 0,
                     before |-> [i \in 1..Len(entities) |-> heap[entities[i]]]])

\* one turn of the loop: remove_entity with the id of the next element
filter_step ==
    /\ loop # None
    /\ loop[1].at < Len(HeldList)
    /\ remove_entity_call(heap[HeldList[loop[1].at + 1]].id)
    /\ loop' = Some([loop[1] EXCEPT !.at = @ + 1])

\* the loop has been through the kept list
filter_done == loop # None /\ loop[1].at = Len(HeldList)

\* the statement after the loop
filter_end ==
    /\ filter_done
    /\ loop' = None
    /\ UNCHANGED <<blueprint_vars, book_vars, call, ret, raised, held>>

\* to_string: str(self.blueprint.to_string()).  The external codec returns
\* the blueprint's string, which stands here as the content it encodes under
\* the format's version byte, or raises, and to_string lets that escape.
to_string_result(ents, hp, tls, lbl, desc, ics, failure) ==
    IF failure = None
    THEN [raised |-> None,
          value |-> Some([version |-> "0",
                          blueprint |-> [entities |-> [i \in 1..Len(ents) |-> hp[ents[i]]],
                                         tiles |-> tls, label |-> lbl,
                                         description |-> desc, icons |-> ics]])]
    ELSE [raised |-> failure, value |-> None]

to_string(failure) ==
    LET post == to_string_result(entities, heap, tiles, label, description, icons, failure)
    IN /\ ret' = post.value
       /\ raised' = post.raised
       /\ call' = [op |-> "to_string"]
       /\ UNCHANGED blueprint_vars
       /\ UNCHANGED book_vars
       /\ UNCHANGED caller_vars

\* a changed validate_result: the exception is recorded and raised again
validate_result_reraised(outcome) ==
    IF outcome = None THEN [raised |-> None, errors |-> <<>>]
    ELSE [raised |-> outcome, errors |-> Append(<<>>, outcome[1])]

\* validate: errors = []; self.blueprint.to_dict() in a try; on an Exception
\* e, errors.append(str(e)).  outcome is what to_dict() did: None when it
\* returned, Some(message) when it raised an Exception with that str().
validate_result(outcome) ==
    IF outcome = None THEN [raised |-> None, errors |-> <<>>]
    ELSE [raised |-> None, errors |-> Append(<<>>, outcome[1])]

validate(outcome) ==
    LET post == validate_result(outcome)
    IN /\ ret' = IF post.raised = None THEN post.errors ELSE None
       /\ raised' = post.raised
       /\ call' = [op |-> "validate", outcome |-> outcome]
       /\ UNCHANGED blueprint_vars
       /\ UNCHANGED book_vars
       /\ UNCHANGED caller_vars

----------------------------------------------------------------------------
(* BlueprintBookEditor.  A member of the book is a Blueprint or a          *)
(* blueprintable of another class (a nested BlueprintBook).  A Blueprint   *)
(* the caller built on its own is a record of its label, entities and      *)
(* tiles; EditorBlueprint is the reference to the editor's blueprint       *)
(* object, whose content is the editor's current state.                    *)

EditorBlueprint == [kind |-> "Blueprint", ref |-> "editor.blueprint"]

\* BlueprintBook(): no label, description or icons, no blueprints
EmptyBook ==
    [label |-> None, description |-> None, icons |-> None, blueprints |-> <<>>]

\* the book the string "0eNqBook" stands for: one blueprint without entities
DecodedBook ==
    [label |-> Some("B"), description |-> None, icons |-> None,
     blueprints |-> <<[entities |-> <<>>, tiles |-> <<>>,
                       label |-> Some("A"), kind |-> "Blueprint"]>>]

\* BlueprintBook(string=book_string) of the external library
BlueprintBook_decode(book_string) ==
    IF book_string = "0eNqBook"
    THEN [raised |-> None, value |-> Some(DecodedBook)]
    ELSE IF book_string = "0eNqBlueprint"
    THEN [raised |-> Some("IncorrectBlueprintTypeError"), value |-> None]
    ELSE [raised |-> Some("MalformedBlueprintStringError"), value |-> None]

\* BlueprintBookEditor.__init__: "if book_string:" decides between
\* BlueprintBook(string=book_string) and BlueprintBook()
BlueprintBookEditor_init_result(book_string) ==
    IF Truthy(book_string) THEN BlueprintBook_decode(book_string[1])
    ELSE [raised |-> None, value |-> Some(EmptyBook)]

\* book_editor = BlueprintBookEditor(book_string)
BlueprintBookEditor_init(book_string) ==
    LET made == BlueprintBookEditor_init_result(book_string)
        book == made.value[1]
    IN /\ call' = [op |-> "BlueprintBookEditor.__init__", source |-> book_string]
       /\ raised' = made.raised
       /\ ret' = None
       /\ IF made.raised = None
          THEN /\ blueprints' = book.blueprints
               /\ book_label' = book.label
               /\ book_description' = book.description
               /\ book_icons' = book.icons
          ELSE UNCHANGED book_vars
       /\ UNCHANGED blueprint_vars
       /\ UNCHANGED caller_vars

\* len(bp.entities), len(bp.tiles) of a member that is a Blueprint
MemberEntities(bp) == IF bp = EditorBlueprint THEN entities ELSE bp.entities
MemberTiles(bp) == IF bp = EditorBlueprint THEN tiles ELSE bp.tiles

\* list.insert(index, x), index 0-based: a negative index counts from the
\* end, and an index beyond either end is clamped to that end.
list_insert(s, index, x) ==
    LET n == Len(s)
        at == IF index < 0 THEN (IF index + n < 0 THEN 0 ELSE index + n)
              ELSE (IF index > n THEN n ELSE index)
    IN InsertAt(s, at + 1, x)

\* a changed add_blueprint_result: the index is ignored
add_blueprint_append_only(bps, blueprint, index) == Append(bps, blueprint)

\* add_blueprint: append when index is None, insert at index otherwise
add_blueprint_result(bps, blueprint, index) ==
    IF index = None THEN Append(bps, blueprint)
    ELSE list_insert(bps, index[1], blueprint)

add_blueprint(blueprint, index) ==
    /\ blueprints' = add_blueprint_result(blueprints, blueprint, index)
    /\ raised' = None
    /\ call' = [op |-> "add_blueprint", blueprint |-> blueprint, index |-> index]
    /\ ret' = None
    /\ UNCHANGED <<book_label, book_description, book_icons>>
    /\ UNCHANGED blueprint_vars
    /\ UNCHANGED caller_vars

\* a changed index_valid: no lower bound
index_below_length(bps, index) == index < Len(bps)

\* the guard of remove_blueprint and get_blueprint
index_valid(bps, index) == 0 <= index /\ index < Len(bps)

\* list.pop(index), index 0-based: a negative index counts from the end, and
\* an index beyond either end raises IndexError and leaves the list as it is.
list_pop(s, index) ==
    LET n == Len(s)
        at == IF index < 0 THEN index + n ELSE index
    IN IF 0 <= at /\ at < n
       THEN [raised |-> None, value |-> Some(s[at + 1]), list |-> RemoveAt(s, at + 1)]
       ELSE [raised |-> Some("IndexError"), value |-> None, list |-> s]

\* a changed remove_blueprint_result: pop() without the index
remove_blueprint_pop_last(bps, index) ==
    IF index_valid(bps, index) THEN list_pop(bps, 0 - 1)
    ELSE [raised |-> None, value |-> None, list |-> bps]

\* remove_blueprint: pop(index) when the index is valid, None otherwise
remove_blueprint_result(bps, index) ==
    IF index_valid(bps, index) THEN list_pop(bps, index)
    ELSE [raised |-> None, value |-> None, list |-> bps]

remove_blueprint(index) ==
    LET post == remove_blueprint_result(blueprints, index)
    IN /\ blueprints' = post.list
       /\ ret' = post.value
       /\ raised' = post.raised
       /\ call' = [op |-> "remove_blueprint", index |-> index]
       /\ UNCHANGED <<book_label, book_description, book_icons>>
       /\ UNCHANGED blueprint_vars
       /\ UNCHANGED caller_vars

\* s[index], index 0-based, with the same index rules as list.pop
list_getitem(s, index) ==
    LET n == Len(s)
        at == IF index < 0 THEN index + n ELSE index
    IN IF 0 <= at /\ at < n
       THEN [raised |-> None, value |-> Some(s[at + 1])]
       ELSE [raised |-> Some("IndexError"), value |-> None]

\* get_blueprint: the member at index when the index is valid, None otherwise
get_blueprint_result(bps, index) ==
    IF index_valid(bps, index) THEN list_getitem(bps, index)
    ELSE [raised |-> None, value |-> None]

get_blueprint(index) ==
    LET post == get_blueprint_result(blueprints, index)
    IN /\ ret' = post.value
       /\ raised' = post.raised
       /\ call' = [op |-> "get_blueprint", index |-> index]
       /\ UNCHANGED book_vars
       /\ UNCHANGED blueprint_vars
       /\ UNCHANGED caller_vars

book_set_metadata(label_, description_, icons_) ==
    /\ book_label' = set_metadata_field(book_label, label_)
    /\ book_description' = set_metadata_field(book_description, description_)
    /\ book_icons' = set_metadata_field(book_icons, icons_)
    /\ raised' = None
    /\ call' = [label |-> label_, description |-> description_,
                icons |-> icons_, op |-> "book.set_metadata"]
    /\ ret' = None
    /\ UNCHANGED blueprints
    /\ UNCHANGED blueprint_vars
    /\ UNCHANGED caller_vars

\* get_book_stats: the loop over the members, front to back; only a member
\* that is a Blueprint adds its entities and tiles to the totals.
is_blueprint(bp) == bp.kind = "Blueprint"

\* a changed get_book_stats_totals: the tiles are added to the entities
RECURSIVE get_book_stats_totals_mixed(_)
get_book_stats_totals_mixed(bps) ==
    IF bps = <<>> THEN [total_entities |-> 0, total_tiles |-> 0]
    ELSE LET sofar == get_book_stats_totals_mixed(SubSeq(bps, 1, Len(bps) - 1))
             bp == bps[Len(bps)]
         IN IF is_blueprint(bp)
            THEN [total_entities |-> sofar.total_entities + Len(MemberEntities(bp))
                                     + Len(MemberTiles(bp)),
                  total_tiles |-> sofar.total_tiles]
            ELSE sofar

\* a changed get_book_stats_totals: "=" where the loop has "+="
get_book_stats_totals_last(bps) ==
    LET last == SelectSeq(bps, is_blueprint)
    IN IF last = <<>> THEN [total_entities |-> 0, total_tiles |-> 0]
       ELSE [total_entities |-> Len(MemberEntities(last[Len(last)])),
             total_tiles |-> Len(MemberTiles(last[Len(last)]))]

RECURSIVE get_book_stats_totals(_)
get_book_stats_totals(bps) ==
    IF bps = <<>> THEN [total_entities |-> 0, total_tiles |-> 0]
    ELSE LET sofar == get_book_stats_totals(SubSeq(bps, 1, Len(bps) - 1))
             bp == bps[Len(bps)]
         IN IF is_blueprint(bp)
            THEN [total_entities |-> sofar.total_entities + Len(MemberEntities(bp)),
                  total_tiles |-> sofar.total_tiles + Len(MemberTiles(bp))]
            ELSE sofar

get_book_stats_result(bps, lbl, desc) ==
    [total_entities |-> get_book_stats_totals(bps).total_entities,
     total_tiles |-> get_book_stats_totals(bps).total_tiles,
     has_label |-> Truthy(lbl),
     has_description |-> Truthy(desc),
     total_blueprints |-> Len(bps)]

get_book_stats ==
    /\ raised' = None
    /\ call' = [op |-> "get_book_stats"]
    /\ ret' = get_book_stats_result(blueprints, book_label, book_description)
    /\ UNCHANGED book_vars
    /\ UNCHANGED blueprint_vars
    /\ UNCHANGED caller_vars

----------------------------------------------------------------------------
(* Bounds and inputs *)

MaxEntities == 3      \* longest entity list of Spec and MetaSpec
MaxMovable == 2       \* longest entity list of GridSpec
MaxShared == 1        \* longest list beside the one a specification is about
MaxTiles == 1         \* longest tile list
MaxBlueprints == 4    \* longest book

EntityIds == {"e1", "e2"}
Coords == {0, 1}
Deltas == {-1, 0, 1}
Directions == {0, 2}

\* An Inserter can be rotated; a Container (a chest) has no direction.
Inserter(k, pos, d) ==
    [position |-> pos, id |-> k, name |-> "inserter", direction |-> d,
     cls |-> "Inserter"]
Chest(k, pos) ==
    [position |-> pos, id |-> k, name |-> "wooden-chest", cls |-> "Container"]

\* every entity of the two classes on the grid
GridEntities ==
    {Inserter(k, <<x, y>>, d) : k \in EntityIds, x \in Coords, y \in Coords,
                                d \in Directions}
    \cup {Chest(k, <<x, y>>) : k \in EntityIds, x \in Coords, y \in Coords}

\* one entity of each class and id, at the origin
OriginEntities ==
    {Inserter(k, <<0, 0>>, 0) : k \in EntityIds}
    \cup {Chest(k, <<0, 0>>) : k \in EntityIds}

NewTiles == {[position |-> <<0, 0>>, name |-> "concrete"]}

TypeFilters == {None, Some(""), Some("inserter"), Some("wooden-chest"), Some("pipe")}

Labels == {None, Some(""), Some("L")}
Descriptions == {None, Some(""), Some("D")}
IconLists == {None, Some(<<>>), Some(<<"signal-A">>)}

\* Blueprints built by the caller, and a nested book
BlueprintA ==
    [entities |-> <<"inserter", "inserter">>, tiles |-> <<"concrete">>,
     label |-> Some("A"), kind |-> "Blueprint"]
NestedBook == [label |-> Some("N"), kind |-> "BlueprintBook"]
Members == {BlueprintA, NestedBook, EditorBlueprint}

\* index arguments: None, in range, and beyond either end
Indexes(n) == {Some(i) : i \in (0 - n - 1)..(n + 1)} \cup {None}

Init ==
    /\ entities = <<>>
    /\ heap = <<>>
    /\ tiles = <<>>
    /\ label = None
    /\ description = None
    /\ icons = None
    /\ blueprints = <<>>
    /\ book_label = None
    /\ book_description = None
    /\ book_icons = None
    /\ call = [op |-> "__init__"]
    /\ raised = None
    /\ ret = None
    /\ held = [list |-> <<>>, same |-> FALSE]
    /\ loop = None

\* the entity a move by (dx, dy) would build stays on the grid
MoveInRange(entity_id, dx, dy) ==
    LET i == move_entity_scan(entities, heap, entity_id)
    IN i # 0 => /\ heap[entities[i]].position[1] + dx \in Coords
                /\ heap[entities[i]].position[2] + dy \in Coords

\* add_entity with an object not yet in the list, or with one already in it
AddEntity(values, bound) ==
    /\ Len(entities) < bound
    /\ \/ \E v \in values : add_entity(0, v)
       \/ \E r \in 1..Len(heap) : add_entity(r, heap[r])

RemoveEntity == \E k \in EntityIds : remove_entity(k)

FindEntities == \E t \in TypeFilters : find_entities(t)

MoveEntity ==
    \E k \in EntityIds, dx \in Deltas, dy \in Deltas :
        MoveInRange(k, dx, dy) /\ move_entity(k, dx, dy)

RotateEntity == \E k \in EntityIds, d \in Directions : rotate_entity(k, d)

AddTile == Len(tiles) < MaxTiles /\ \E t \in NewTiles : add_tile(t)

SetMetadata(ls, ds, is) ==
    \E l \in ls, d \in ds, i \in is : set_metadata(l, d, i)

GetStats == get_stats

AddBlueprint ==
    /\ Len(blueprints) < MaxBlueprints
    /\ \E b \in Members, i \in Indexes(Len(blueprints)) : add_blueprint(b, i)

RemoveBlueprint ==
    \E i \in Indexes(Len(blueprints)) \ {None} : remove_blueprint(i[1])

GetBlueprint ==
    \E i \in Indexes(Len(blueprints)) \ {None} : get_blueprint(i[1])

BookSetMetadata(ls, ds, is) ==
    \E l \in ls, d \in ds, i \in is : book_set_metadata(l, d, i)

GetBookStats == get_book_stats

\* what self.blueprint.to_dict() can do inside validate: return, or raise an
\* Exception whose str() is the message
ValidatorOutcomes == {None, Some(""), Some("entity out of bounds")}

\* what the codec can do inside to_string: return, or raise
EncoderFailures == {None, Some("EncodeError")}

\* the constructors' argument: omitted, empty, malformed, a blueprint's
\* string and a book's string
SourceStrings ==
    {None, Some(""), Some("not a blueprint"), Some("0eNqBlueprint"), Some("0eNqBook")}

\* a new editor in the place of the one there is; the book holds no
\* reference to the blueprint of the editor that is given up
ConstructEditor ==
    /\ EditorBlueprint \notin Range(blueprints)
    /\ \E s \in SourceStrings : BlueprintEditor_init(s)

ConstructBookEditor == \E s \in SourceStrings : BlueprintBookEditor_init(s)

FindEntitiesKept == \E t \in {None, Some("inserter")} : find_entities_kept(t)

HeldPop == held_pop

FilterBegin == \E t \in {"inserter", "wooden-chest", "pipe"} : filter_begin(t)

FilterStep == filter_step

FilterEnd == filter_end

Validate == \E o \in ValidatorOutcomes : validate(o)

ExportString == \E f \in EncoderFailures : to_string(f)

\* a move along the x axis
ShiftEntity(deltas) ==
    \E k \in EntityIds, dx \in deltas : MoveInRange(k, dx, 0) /\ move_entity(k, dx, 0)

\* add_entity with an object not yet in the list
AddNewEntity(values, bound) ==
    /\ Len(entities) < bound
    /\ \E v \in values : add_entity(0, v)

\* Spec: the editor's list bookkeeping
Next ==
    \/ AddEntity(OriginEntities, MaxEntities)
    \/ RemoveEntity
    \/ FindEntities
    \/ AddTile
    \/ SetMetadata(Labels, {None, Some("D")}, {None})
    \/ GetStats

Spec == Init /\ [][Next]_vars

\* GridSpec: entities anywhere on the grid, moved and rotated
GridNext ==
    \/ AddEntity(GridEntities, MaxMovable)
    \/ RemoveEntity
    \/ MoveEntity
    \/ RotateEntity

GridSpec == Init /\ [][GridNext]_vars

\* MetaSpec: the metadata of the blueprint and of the book
MetaNext ==
    \/ SetMetadata(Labels, Descriptions, IconLists)
    \/ BookSetMetadata(Labels, Descriptions, IconLists)
    \/ AddEntity({Chest("e1", <<0, 0>>)}, MaxShared)
    \/ AddTile
    \/ Len(blueprints) < MaxShared /\ add_blueprint(BlueprintA, None)
    \/ GetStats
    \/ GetBookStats

MetaSpec == Init /\ [][MetaNext]_vars

\* BookSpec: the book, one of whose members can be the editor's blueprint
BookNext ==
    \/ AddBlueprint
    \/ RemoveBlueprint
    \/ GetBlueprint
    \/ GetBookStats
    \/ AddEntity({Inserter("e1", <<0, 0>>, 0)}, MaxShared)
    \/ RemoveEntity
    \/ AddTile

BookSpec == Init /\ [][BookNext]_vars

\* LookupSpec: the lookups by id and by index of both editors
LookupNext ==
    \/ AddEntity({Inserter("e1", <<0, 0>>, 0)}, MaxShared)
    \/ RemoveEntity
    \/ MoveEntity
    \/ RotateEntity
    \/ Len(blueprints) < MaxShared /\ \E b \in Members : add_blueprint(b, None)
    \/ RemoveBlueprint
    \/ GetBlueprint

LookupSpec == Init /\ [][LookupNext]_vars

\* two entities with one id, one of them without a direction, and a third
EditorEntities ==
    {Inserter("e1", <<0, 0>>, 0), Chest("e1", <<0, 0>>), Chest("e2", <<0, 0>>)}

\* EditorSpec: every operation of the BlueprintEditor
EditorNext ==
    \/ AddEntity(EditorEntities, MaxMovable)
    \/ RemoveEntity
    \/ FindEntities
    \/ ShiftEntity(Deltas)
    \/ RotateEntity
    \/ AddTile
    \/ SetMetadata({None, Some("L")}, {None}, {None})
    \/ ExportString
    \/ Validate
    \/ GetStats

EditorSpec == Init /\ [][EditorNext]_vars

\* ConstructSpec: editors made from strings and from nothing, and used
ConstructNext ==
    \/ ConstructEditor
    \/ ConstructBookEditor
    \/ AddEntity({Chest("e2", <<0, 0>>)}, MaxShared)
    \/ RemoveEntity
    \/ AddTile
    \/ SetMetadata({None, Some("L")}, {None, Some("D")}, {None})
    \/ Len(blueprints) < MaxShared /\ add_blueprint(NestedBook, None)
    \/ RemoveBlueprint
    \/ BookSetMetadata({None, Some("L")}, {None}, {None})

ConstructSpec == Init /\ [][ConstructNext]_vars

\* an inserter and a chest with different ids
SnapshotEntities == {Inserter("e1", <<0, 0>>, 0), Chest("e2", <<0, 0>>)}

\* SnapshotSpec: a list returned by find_entities, kept over later calls
SnapshotNext ==
    \/ AddNewEntity(SnapshotEntities, MaxMovable)
    \/ RemoveEntity
    \/ ShiftEntity({0, 1})
    \/ RotateEntity
    \/ FindEntitiesKept
    \/ HeldPop

SnapshotSpec == Init /\ [][SnapshotNext]_vars

\* FilterSpec: blueprints built by add_entity and remove_entity, and the
\* examples' removal by type run on them; nothing runs inside the loop but
\* the loop
FilterNext ==
    \/ loop = None /\ AddEntity(OriginEntities, MaxEntities)
    \/ loop = None /\ RemoveEntity
    \/ FilterBegin
    \/ FilterStep
    \/ FilterEnd

FilterSpec == Init /\ [][FilterNext]_vars

----------------------------------------------------------------------------
(* Properties.  A step of an operation is a step whose new `call` names    *)
(* it; the unprimed variables are the state the call found.                *)

\* the entity objects of a list, position by position
Objects(ents, hp) == [i \in 1..Len(ents) |-> hp[ents[i]]]

\* how often the object x occurs in the list s
Count(s, x) == Cardinality({i \in 1..Len(s) : s[i] = x})

\* the position, before a deletion at position i, of what is at position j after it
Before(i, j) == IF j < i THEN j ELSE j + 1

\* the lists ents and ents2 agree, once position i of ents is left out, on
\* which of their positions hold one and the same object
SameSharing(ents, i, ents2) ==
    \A a, b \in 1..Len(ents2) :
        (ents2[a] = ents2[b]) <=> (ents[Before(i, a)] = ents[Before(i, b)])

\* C1: when exactly one entity has the id k, remove_entity(k) returns True,
\* afterwards find_entities() holds no entity with the id k and holds every
\* other entity in its original relative order, and remove_entity(k) called
\* again returns False.
C1_Step(k) ==
    (/\ call'.op = "remove_entity"
     /\ call'.entity_id = k
     /\ Cardinality(IdMatches(entities, heap, k)) = 1)
    => LET i == CHOOSE i \in IdMatches(entities, heap, k) : TRUE
           found == find_entities_result(entities', heap', None)
       IN /\ ret' = TRUE
          /\ raised' = None
          /\ \A j \in 1..Len(found) : heap'[found[j]].id # k
          /\ Objects(found, heap') = RemoveAt(Objects(entities, heap), i)
          /\ SameSharing(entities, i, found)
          /\ remove_entity_scan(entities', heap', k) = 0

C1_Again ==
    (/\ call.op = "remove_entity"
     /\ call' = call
     /\ IdMatches(entities, heap, call.entity_id) = {})
    => ret' = FALSE

\* C1, over every step: remove_entity(k) with exactly one entity of id k returns
\* True and removes it alone (C1_Step); called again it returns False.
C1_RemoveEntity == [][C1_Again /\ \A k \in EntityIds : C1_Step(k)]_vars

\* C1 witness: remove_entity has removed the one entity with its id from a
\* list of three, and two different entities are left.
C1_Witness ==
    /\ call.op = "remove_entity"
    /\ ret = TRUE
    /\ Len(entities) = 2
    /\ IdMatches(entities, heap, call.entity_id) = {}
    /\ heap[entities[1]] # heap[entities[2]]

\* what C2 says of a step of add_entity(e), but for how often a following
\* find_entities(e.name) holds e: n times
C2_Step(n) ==
    call'.op = "add_entity"
    => LET len == Len(entities)
           e == entities'[len + 1]
           found == find_entities_result(entities', heap', Some(call'.value.name))
       IN /\ Len(entities') = len + 1
          /\ heap'[e] = call'.value
          /\ IF call'.obj = 0 THEN e \notin Range(entities) ELSE e = call'.obj
          /\ \A i \in 1..len : /\ entities'[i] = entities[i]
                               /\ heap'[entities'[i]] = heap[entities[i]]
          /\ tiles' = tiles /\ label' = label
          /\ description' = description /\ icons' = icons
          /\ Count(found, e) = n

\* C2 as stated: add_entity(e) appends e as the last element, the length
\* grows by one, tiles and metadata stay, and a following
\* find_entities(e.name) holds e exactly once.
C2_AsStated == [][C2_Step(1)]_vars

\* C2 amended: add_entity(e) appends e as the last element, the length
\* grows by one, tiles and metadata stay, and a following
\* find_entities(e.name) holds e once more often than the list held e before
\* the call (exactly once when e was not in the list).
C2_AddEntity == [][C2_Step(1 + Count(entities, entities'[Len(entities) + 1]))]_vars

\* C2 witness: add_entity has appended an object the list did not hold, as
\* the third element, beside a tile and a label.
C2_Witness ==
    /\ call.op = "add_entity"
    /\ call.obj = 0
    /\ Len(entities) = 3
    /\ Count(entities, entities[3]) = 1
    /\ tiles # <<>>
    /\ label # None

\* C3: when an entity has the id, move_entity(id, dx, dy) returns True; the
\* entity at the position of the first such entity then has the old position
\* plus (dx, dy) and the old name and direction; the list is as long as
\* before and the entity at every other position is the one it was; and
\* after move_entity(id, 0, 0) the position equals the old one.
C3_Step ==
    (/\ call'.op = "move_entity"
     /\ IdMatches(entities, heap, call'.entity_id) # {})
    => LET i == Min(IdMatches(entities, heap, call'.entity_id))
           others == (1..Len(entities)) \ {i}
           old == heap[entities[i]]
           new == heap'[entities'[i]]
       IN /\ ret' = TRUE
          /\ raised' = None
          /\ Len(entities') = Len(entities)
          /\ new.position = <<old.position[1] + call'.dx, old.position[2] + call'.dy>>
          /\ new.name = old.name
          /\ HasDirection(new) = HasDirection(old)
          /\ HasDirection(old) => new.direction = old.direction
          /\ \A j \in others : heap'[entities'[j]] = heap[entities[j]]
          /\ \A a, b \in others : (entities'[a] = entities'[b]) <=> (entities[a] = entities[b])
          /\ (call'.dx = 0 /\ call'.dy = 0) => new.position = old.position

\* C3, over every step: move_entity with an id some entity has (C3_Step).
C3_MoveEntity == [][C3_Step]_vars

\* C3 witness: move_entity has moved the first of two entities, a rotated
\* inserter, by (1, 1).
C3_Witness ==
    /\ call.op = "move_entity"
    /\ ret = TRUE
    /\ call.dx = 1 /\ call.dy = 1
    /\ Len(entities) = 2
    /\ heap[entities[1]].id = call.entity_id
    /\ heap[entities[1]].position = <<1, 1>>
    /\ HasDirection(heap[entities[1]])
    /\ heap[entities[1]].direction = 2

\* rotate_entity has set the direction of the entity at position i, and of
\* nothing else
C4_Rotated(i) ==
    LET old == heap[entities[i]]
        new == heap'[entities'[i]]
    IN /\ ret' = TRUE
       /\ raised' = None
       /\ entities' = entities
       /\ HasDirection(new)
       /\ new.direction = call'.direction
       /\ new.id = old.id /\ new.name = old.name /\ new.position = old.position
       /\ Len(heap') = Len(heap)
       /\ \A r \in (1..Len(heap)) \ {entities[i]} : heap'[r] = heap[r]

\* rotate_entity has returned False and changed no entity
C4_Refused ==
    /\ ret' = FALSE
    /\ raised' = None
    /\ entities' = entities
    /\ heap' = heap

\* C4 as stated, the entity being the first one with the id: if it has a
\* direction, rotate_entity(id, d) returns True and sets it to d, the
\* entity's id, name and position and all other entities staying; if it has
\* none, rotate_entity returns False and changes nothing; if no entity has
\* the id, rotate_entity returns False.
C4_StepAsStated ==
    call'.op = "rotate_entity"
    => LET hits == IdMatches(entities, heap, call'.entity_id)
       IN IF hits = {} THEN C4_Refused
          ELSE IF HasDirection(heap[entities[Min(hits)]]) THEN C4_Rotated(Min(hits))
          ELSE C4_Refused

\* C4 as stated, over every step of rotate_entity (C4_StepAsStated).
C4_AsStated == [][C4_StepAsStated]_vars

\* C4 amended: rotate_entity(id, d) returns True exactly when some entity
\* with the id has a direction; it then sets the direction of the first such
\* entity to d, the entity's id, name and position and all other entities
\* staying.  When no entity with the id has a direction, or none has the id,
\* it returns False and changes nothing.
C4_Step ==
    call'.op = "rotate_entity"
    => LET hits == {i \in IdMatches(entities, heap, call'.entity_id) :
                        HasDirection(heap[entities[i]])}
       IN IF hits = {} THEN C4_Refused ELSE C4_Rotated(Min(hits))

\* C4 amended, over every step of rotate_entity (C4_Step).
C4_RotateEntity == [][C4_Step]_vars

\* C4 witness: rotate_entity has turned the second of two entities, an
\* inserter, and the first entity is a chest with another id.
C4_Witness ==
    /\ call.op = "rotate_entity"
    /\ ret = TRUE
    /\ call.direction = 2
    /\ Len(entities) = 2
    /\ ~HasDirection(heap[entities[1]])
    /\ heap[entities[1]].id # call.entity_id
    /\ heap[entities[2]].id = call.entity_id
    /\ heap[entities[2]].direction = 2

\* a metadata field after set_metadata: the given value if one was given,
\* the old value if not
C5_Field(old, given, new) == IF given # None THEN new = given ELSE new = old

\* C5: set_metadata of either editor overwrites each of label, description
\* and icons that is given with the given value, keeps each that is omitted,
\* and leaves the entities, the tiles and the blueprints as they are.
C5_Step ==
    /\ call'.op = "set_metadata"
       => /\ C5_Field(label, call'.label, label')
          /\ C5_Field(description, call'.description, description')
          /\ C5_Field(icons, call'.icons, icons')
          /\ raised' = None
          /\ UNCHANGED <<entities, heap, tiles, book_vars>>
    /\ call'.op = "book.set_metadata"
       => /\ C5_Field(book_label, call'.label, book_label')
          /\ C5_Field(book_description, call'.description, book_description')
          /\ C5_Field(book_icons, call'.icons, book_icons')
          /\ raised' = None
          /\ UNCHANGED <<blueprints, blueprint_vars>>

\* C5, over every step: set_metadata of either editor is a partial update
\* that leaves the lists alone (C5_Step).
C5_SetMetadata == [][C5_Step]_vars

\* C5 witness: set_metadata has been given an empty label and an empty icon
\* list and no description, on a blueprint that had a description and holds
\* an entity and a tile, while the book has metadata of its own.
C5_Witness ==
    /\ call.op = "set_metadata"
    /\ call.label = Some("") /\ call.description = None /\ call.icons = Some(<<>>)
    /\ label = Some("") /\ description = Some("D") /\ icons = Some(<<>>)
    /\ entities # <<>> /\ tiles # <<>> /\ blueprints # <<>>
    /\ book_label = Some("L") /\ book_icons = Some(<<"signal-A">>)

RECURSIVE SumOver(_, _)
SumOver(f, S) ==
    IF S = {} THEN 0
    ELSE LET n == CHOOSE n \in S : TRUE IN f[n] + SumOver(f, S \ {n})

\* C6: in every state get_stats returns the number of entities, the number
\* of tiles, the number of occurrences of each name that occurs (no other
\* key, no count 0, the counts adding up to the number of entities), and
\* has_label / has_description true exactly when the label / description is
\* a non-empty string; on an empty blueprint it returns 0, 0, {}, False, False.
C6_GetStats ==
    LET st == get_stats_result(entities, heap, tiles, label, description)
        names == {heap[entities[i]].name : i \in 1..Len(entities)}
        occurrences(n) == Cardinality({i \in 1..Len(entities) : heap[entities[i]].name = n})
    IN /\ st.total_entities = Len(entities)
       /\ st.total_tiles = Len(tiles)
       /\ DOMAIN st.entity_counts = names
       /\ \A n \in names : st.entity_counts[n] = occurrences(n) /\ st.entity_counts[n] > 0
       /\ SumOver(st.entity_counts, DOMAIN st.entity_counts) = st.total_entities
       /\ st.has_label = (label # None /\ label # Some(""))
       /\ st.has_description = (description # None /\ description # Some(""))
       /\ (entities = <<>> /\ tiles = <<>> /\ label = None /\ description = None)
          => st = [entity_counts |-> <<>>, total_entities |-> 0, total_tiles |-> 0,
                   has_label |-> FALSE, has_description |-> FALSE]
       /\ call.op = "get_stats" => (ret = st /\ raised = None)

\* C6 witness: get_stats has counted two inserters and a chest, a tile, an
\* empty label and a description.
C6_Witness ==
    /\ call.op = "get_stats"
    /\ ret.total_entities = 3
    /\ ret.total_tiles = 1
    /\ ret.entity_counts = [n \in {"inserter", "wooden-chest"} |->
                               IF n = "inserter" THEN 2 ELSE 1]
    /\ label = Some("") /\ ~ret.has_label
    /\ ret.has_description

\* C7: add_blueprint(b) without an index appends b as the last member;
\* add_blueprint(b, i) with 0 <= i <= length makes the book one longer, with
\* b at index i, the members before i where they were and the members from
\* i on one place to the right.
C7_Step ==
    call'.op = "add_blueprint"
    => LET n == Len(blueprints)
           b == call'.blueprint
           index == call'.index
       IN /\ raised' = None
          /\ index = None
             => /\ Len(blueprints') = n + 1
                /\ blueprints'[n + 1] = b
                /\ \A j \in 1..n : blueprints'[j] = blueprints[j]
          /\ (index # None /\ 0 <= index[1] /\ index[1] <= n)
             => /\ Len(blueprints') = n + 1
                /\ blueprints'[index[1] + 1] = b
                /\ \A j \in 0..(index[1] - 1) : blueprints'[j + 1] = blueprints[j + 1]
                /\ \A j \in index[1]..(n - 1) : blueprints'[j + 2] = blueprints[j + 1]

\* C7, over every step: add_blueprint appends, or inserts at the index (C7_Step).
C7_AddBlueprint == [][C7_Step]_vars

\* C7 witness: add_blueprint(b, 1) has made a book of three a book of four,
\* with b between two different members.
C7_Witness ==
    /\ call.op = "add_blueprint"
    /\ call.index = Some(1)
    /\ Len(blueprints) = 4
    /\ blueprints[2] = call.blueprint
    /\ blueprints[1] # call.blueprint
    /\ blueprints[3] # blueprints[1]

\* C8: remove_blueprint(i) with 0 <= i < length returns the member at index
\* i and leaves the book one shorter, the other members in their order; and
\* remove_blueprint(i) right after add_blueprint(b, i), 0 <= i <= the length
\* before it, returns b and leaves the book that add_blueprint found (the
\* book which, with b put at index i, is the book between the two calls).
C8_Step ==
    /\ (/\ call'.op = "remove_blueprint"
        /\ 0 <= call'.index /\ call'.index < Len(blueprints))
       => /\ ret' = Some(blueprints[call'.index + 1])
          /\ raised' = None
          /\ Len(blueprints') = Len(blueprints) - 1
          /\ \A j \in 1..Len(blueprints') :
                blueprints'[j] = blueprints[Before(call'.index + 1, j)]
    /\ (/\ call.op = "add_blueprint"
        /\ call.index # None
        /\ 0 <= call.index[1] /\ call.index[1] < Len(blueprints)
        /\ call'.op = "remove_blueprint"
        /\ call'.index = call.index[1])
       => /\ ret' = Some(call.blueprint)
          /\ InsertAt(blueprints', call.index[1] + 1, call.blueprint) = blueprints

\* C8, over every step: remove_blueprint returns the member at the index and
\* closes the gap, and undoes an add_blueprint at that index (C8_Step).
C8_RemoveBlueprint == [][C8_Step]_vars

\* C8 witness: remove_blueprint(1) has returned the middle one of four
\* members, and the members around it are different ones.
C8_Witness ==
    /\ call.op = "remove_blueprint"
    /\ call.index = 1
    /\ ret # None
    /\ Len(blueprints) = 3
    /\ blueprints[1] # blueprints[2]
    /\ ret[1] # blueprints[2]

\* C9: a lookup that misses returns False or None, raises nothing and
\* changes nothing: remove_entity, move_entity and rotate_entity with an id
\* no entity has, get_blueprint and remove_blueprint with an index that is
\* negative or not below the length.
C9_Step ==
    /\ (/\ call'.op \in {"remove_entity", "move_entity", "rotate_entity"}
        /\ IdMatches(entities, heap, call'.entity_id) = {})
       => /\ ret' = FALSE
          /\ raised' = None
          /\ UNCHANGED <<blueprint_vars, book_vars>>
    /\ (/\ call'.op \in {"get_blueprint", "remove_blueprint"}
        /\ ~(0 <= call'.index /\ call'.index < Len(blueprints)))
       => /\ ret' = None
          /\ raised' = None
          /\ UNCHANGED <<blueprint_vars, book_vars>>

\* C9, over every step: a lookup that misses returns False or None, raises
\* nothing and changes nothing (C9_Step).
C9_LookupMiss == [][C9_Step]_vars

\* C9 witness: remove_blueprint(-1) has returned None on a book that has a
\* member, beside a blueprint that holds an entity.
C9_Witness ==
    /\ call.op = "remove_blueprint"
    /\ call.index = 0 - 1
    /\ ret = None
    /\ blueprints # <<>>
    /\ entities # <<>>

\* the pairs <<i, j>> of a member i that is a Blueprint and a position j of
\* the list it has under the given name
C10_Elements(lists(_)) ==
    UNION {{<<i, j>> : j \in 1..Len(lists(blueprints[i]))} :
              i \in {i \in 1..Len(blueprints) : blueprints[i].kind = "Blueprint"}}

\* C10: get_book_stats returns the number of all members as
\* total_blueprints and, as total_entities and total_tiles, the numbers of
\* entities and of tiles of the members that are Blueprints; it changes
\* neither the book nor a member.
C10_Step ==
    call'.op = "get_book_stats"
    => /\ ret'.total_blueprints = Len(blueprints)
       /\ ret'.total_entities = Cardinality(C10_Elements(MemberEntities))
       /\ ret'.total_tiles = Cardinality(C10_Elements(MemberTiles))
       /\ raised' = None
       /\ UNCHANGED <<book_vars, blueprint_vars>>

\* C10, over every step: get_book_stats returns the totals and changes
\* nothing (C10_Step).
C10_GetBookStats == [][C10_Step]_vars

\* C10 witness: get_book_stats has counted a book of a nested book, the
\* editor's blueprint with an entity and a tile, and a blueprint with two
\* entities and a tile.
C10_Witness ==
    /\ call.op = "get_book_stats"
    /\ Range(blueprints) = {NestedBook, EditorBlueprint, BlueprintA}
    /\ ret.total_blueprints = 3
    /\ ret.total_entities = 3
    /\ ret.total_tiles = 2

\* C11: validate never lets an exception escape: when the validator raises,
\* validate returns a list of exactly one string, the exception's message;
\* when it returns, validate returns the empty list; the list never has more
\* than one entry, and the blueprint is left as it was.
C11_Step ==
    call'.op = "validate"
    => /\ raised' = None
       /\ call'.outcome # None => ret' = <<call'.outcome[1]>>
       /\ call'.outcome = None => ret' = <<>>
       /\ Len(ret') <= 1
       /\ UNCHANGED <<blueprint_vars, book_vars>>

\* C11, over every step: validate returns the message of the validator's
\* exception as the only entry, or no entry, raises nothing and changes
\* nothing (C11_Step).
C11_Validate == [][C11_Step]_vars

\* C11 witness: validate has returned the one message of a raising validator
\* on a blueprint with an entity, a tile and a label.
C11_Witness ==
    /\ call.op = "validate"
    /\ call.outcome = Some("entity out of bounds")
    /\ raised = None
    /\ ret = <<"entity out of bounds">>
    /\ entities # <<>> /\ tiles # <<>> /\ label # None

\* the blueprint the editor holds, the book the book editor holds
C12_Blueprint ==
    [entities |-> Objects(entities, heap), tiles |-> tiles, label |-> label,
     description |-> description, icons |-> icons]
C12_Book ==
    [label |-> book_label, description |-> book_description, icons |-> book_icons,
     blueprints |-> blueprints]

\* C12 as stated: a constructor that is given a source string passes it to
\* the codec; if the codec rejects it the constructor raises the decode error
\* and nothing is made, otherwise the editor holds what the string decodes
\* to; only without a source string does the editor hold an empty blueprint
\* or an empty book.
C12_Step ==
    /\ call'.op = "BlueprintEditor.__init__"
       => LET decoded == Blueprint_decode(call'.source[1])
          IN IF call'.source = None
             THEN raised' = None /\ C12_Blueprint' = EmptyBlueprint
             ELSE IF decoded.raised # None
             THEN raised' = decoded.raised /\ UNCHANGED blueprint_vars
             ELSE raised' = None /\ C12_Blueprint' = decoded.value[1]
    /\ call'.op = "BlueprintBookEditor.__init__"
       => LET decoded == BlueprintBook_decode(call'.source[1])
          IN IF call'.source = None
             THEN raised' = None /\ C12_Book' = EmptyBook
             ELSE IF decoded.raised # None
             THEN raised' = decoded.raised /\ UNCHANGED book_vars
             ELSE raised' = None /\ C12_Book' = decoded.value[1]

\* C12 as stated, over every step of a constructor (C12_Step).
C12_AsStated == [][C12_Step]_vars

\* no two elements of the entity list have one id
C13_Unique(ents, hp) ==
    \A a, b \in 1..Len(ents) : hp[ents[a]].id = hp[ents[b]].id => a = b

\* C13 as stated: in every state the editor's operations reach, the ids of
\* the entities in the entity list are unique.
C13_AsStated == C13_Unique(entities, heap)

\* C13 amended: the ids stay unique over every operation but an add_entity
\* whose entity has an id that an entity of the list already has; so they
\* are unique in every state reached with add_entity given new ids only.
C13_Step ==
    (/\ C13_Unique(entities, heap)
     /\ call'.op = "add_entity" => IdMatches(entities, heap, call'.value.id) = {})
    => C13_Unique(entities', heap')

\* C13 amended, over every step: the ids of the entity list stay unique but
\* for an add_entity with an id the list already has (C13_Step).
C13_UniqueIds == [][C13_Step]_vars

\* C13 witness: move_entity has replaced one of two entities, and the two
\* ids are different.
C13_Witness ==
    /\ call.op = "move_entity"
    /\ ret = TRUE
    /\ Len(entities) = 2
    /\ C13_Unique(entities, heap)
    /\ heap[entities[2]].id = call.entity_id
    /\ heap[entities[2]].position = <<1, 0>>

\* the methods of the two editors, by the name `call` gives them
C14_EditorOps ==
    {"add_entity", "remove_entity", "find_entities", "move_entity", "rotate_entity",
     "add_tile", "set_metadata", "to_string", "validate", "get_stats"}
C14_BookOps ==
    {"add_blueprint", "remove_blueprint", "get_blueprint", "book.set_metadata",
     "get_book_stats"}

\* what can be read through the BlueprintEditor: the blueprint's metadata,
\* entities and tiles, and the statistics
C14_EditorView ==
    [entities |-> Objects(entities, heap), tiles |-> tiles, label |-> label,
     description |-> description, icons |-> icons,
     stats |-> get_stats_result(entities, heap, tiles, label, description)]

\* what can be read through the BlueprintBookEditor: the book's metadata, its
\* members with what they hold, and the statistics
C14_BookView ==
    [label |-> book_label, description |-> book_description, icons |-> book_icons,
     blueprints |-> [i \in 1..Len(blueprints) |->
                       IF blueprints[i] = EditorBlueprint
                       THEN [entities |-> Objects(entities, heap), tiles |-> tiles,
                             label |-> label, kind |-> "Blueprint"]
                       ELSE blueprints[i]],
     stats |-> get_book_stats_result(blueprints, book_label, book_description)]

\* a method of the one editor changes nothing that can be read through the other
C14_Isolated ==
    /\ call'.op \in C14_EditorOps => C14_BookView' = C14_BookView
    /\ call'.op \in C14_BookOps => C14_EditorView' = C14_EditorView

\* C14 as stated: no method of one editor changes a value that can be read
\* through the other editor, also when the BlueprintEditor's blueprint was
\* passed to the book editor's add_blueprint.
C14_AsStated == [][C14_Isolated]_vars

\* C14 amended: a method of the book editor changes nothing that can be read
\* through the BlueprintEditor; a method of the BlueprintEditor changes
\* neither the book's list of members nor its metadata, and nothing that can
\* be read through a book that does not hold the editor's blueprint; when
\* the book holds it, what the method does to the blueprint is read through
\* the book: the statistics move by the change in entities and tiles, once
\* for each time the blueprint is a member.
C14_Step ==
    /\ call'.op \in C14_BookOps => C14_EditorView' = C14_EditorView
    /\ call'.op \in C14_EditorOps =>
          LET shared == Count(blueprints, EditorBlueprint)
              stats == get_book_stats_result(blueprints, book_label, book_description)
          IN /\ UNCHANGED book_vars
             /\ shared = 0 => C14_BookView' = C14_BookView
             /\ C14_BookView'.stats.total_entities =
                    stats.total_entities + shared * (Len(entities') - Len(entities))
             /\ C14_BookView'.stats.total_tiles =
                    stats.total_tiles + shared * (Len(tiles') - Len(tiles))
             /\ \A i \in 1..Len(blueprints) :
                    blueprints[i] = EditorBlueprint
                    => /\ C14_BookView'.blueprints[i].entities = Objects(entities', heap')
                       /\ C14_BookView'.blueprints[i].tiles = tiles'

\* C14 amended, over every step: the editors share the blueprint passed to
\* add_blueprint and nothing else (C14_Step).
C14_SharedBlueprint == [][C14_Step]_vars

\* C14 witness: add_entity has added an entity to the blueprint that the
\* book holds twice, beside a blueprint of its own.
C14_Witness ==
    /\ call.op = "add_entity"
    /\ entities # <<>>
    /\ Count(blueprints, EditorBlueprint) = 2
    /\ BlueprintA \in Range(blueprints)
    /\ get_book_stats_result(blueprints, book_label, book_description).total_entities = 4

\* C15 as stated: find_entities with a filter string, whatever its value,
\* returns exactly the entities whose name is the filter, in the order of the
\* list; without a filter it returns the whole list in order; either way
\* the blueprint is left as it was.
C15_Step ==
    call'.op = "find_entities"
    => /\ raised' = None
       /\ IF call'.entity_type # None
          THEN ret' = SelectSeq(entities, LAMBDA r : heap[r].name = call'.entity_type[1])
          ELSE ret' = entities
       /\ UNCHANGED <<blueprint_vars, book_vars>>

\* C15 as stated, over every step of find_entities (C15_Step).
C15_AsStated == [][C15_Step]_vars

\* the list the caller kept holds after the step the objects it held before
\* it, each with the fields it had
C16_SameHeld ==
    /\ Objects(HeldList', heap') = Objects(HeldList, heap)
    /\ \A a, b \in 1..Len(HeldList) : (HeldList'[a] = HeldList'[b]) <=> (HeldList[a] = HeldList[b])

\* the element a of the kept list is the element b of the entity list after
\* the step exactly when it was the element c before it
C16_SameShare(a, b, c) == (HeldList'[a] = entities'[b]) <=> (HeldList[a] = entities[c])

\* C16: the list find_entities returned is a shallow snapshot.  add_entity,
\* remove_entity and move_entity leave it holding the same objects with the
\* same fields (after move_entity the located object with its old position,
\* not the replacement); popping from it leaves the blueprint as it was;
\* and the direction rotate_entity sets on an object the list holds is read
\* through the list.
C16_Step ==
    /\ call'.op = "add_entity"
       => /\ C16_SameHeld
          /\ \A a \in 1..Len(HeldList), b \in 1..Len(entities) : C16_SameShare(a, b, b)
    /\ call'.op = "remove_entity"
       => LET i == remove_entity_scan(entities, heap, call'.entity_id)
          IN /\ C16_SameHeld
             /\ i # 0 => \A a \in 1..Len(HeldList), b \in 1..Len(entities') :
                             C16_SameShare(a, b, Before(i, b))
    /\ call'.op = "move_entity"
       => LET i == move_entity_scan(entities, heap, call'.entity_id)
          IN /\ C16_SameHeld
             /\ i # 0 => /\ \A a \in 1..Len(HeldList) : HeldList'[a] # entities'[i]
                         /\ \A a \in 1..Len(HeldList), b \in (1..Len(entities)) \ {i} :
                               C16_SameShare(a, b, b)
    /\ call'.op = "found.pop"
       => /\ Objects(entities', heap') = Objects(entities, heap)
          /\ \A a, b \in 1..Len(entities) : (entities'[a] = entities'[b]) <=> (entities[a] = entities[b])
          /\ UNCHANGED <<tiles, label, description, icons>>
          /\ Objects(HeldList', heap') = SubSeq(Objects(HeldList, heap), 1, Len(HeldList) - 1)
    /\ (call'.op = "rotate_entity" /\ ret')
       => LET i == rotate_entity_scan(entities, heap, call'.entity_id)
          IN /\ HeldList' = HeldList
             /\ \A a \in 1..Len(HeldList) :
                   IF HeldList[a] = entities[i]
                   THEN heap'[HeldList'[a]].direction = call'.direction
                   ELSE heap'[HeldList'[a]] = heap[HeldList[a]]

\* C16, over every step: the kept list is untouched by add_entity,
\* remove_entity and move_entity, the blueprint by a change of the list, and
\* rotate_entity shows through the list (C16_Step).
C16_Snapshot == [][C16_Step]_vars

\* C16 witness: rotate_entity has turned the first entity, which the kept
\* list of two holds and shows turned, while the second object the list
\* holds is one that move_entity has replaced, still at its old position.
C16_Witness ==
    /\ call.op = "rotate_entity"
    /\ ret = TRUE
    /\ call.direction = 2
    /\ Len(HeldList) = 2 /\ Len(entities) = 2
    /\ HeldList[1] = entities[1]
    /\ HasDirection(heap[HeldList[1]])
    /\ heap[HeldList[1]].direction = 2
    /\ HeldList[2] \notin Range(entities)
    /\ heap[HeldList[2]].position = <<0, 0>>
    /\ heap[entities[2]].id = heap[HeldList[2]].id
    /\ heap[entities[2]].position = <<1, 0>>

\* the first entity with the id of the rotate_entity call has no direction
C17_FirstCannotTurn ==
    /\ call'.op = "rotate_entity"
    /\ IdMatches(entities, heap, call'.entity_id) # {}
    /\ ~HasDirection(heap[entities[Min(IdMatches(entities, heap, call'.entity_id))]])

\* C17 as stated: rotate_entity decides on the first entity with the id; if
\* that entity has no direction, the call returns False and no entity's
\* direction changes, also when a later entity with the id has a direction.
C17_AsStated == [][C17_FirstCannotTurn => (ret' = FALSE /\ heap' = heap)]_vars

\* C17 amended: rotate_entity decides on the first entity that has the id
\* and a direction.  If the first entity with the id has no direction and a
\* later entity with the id has one, the call sets the direction of the first
\* such entity, changes nothing else and returns True; it returns False,
\* with no direction changed, only if no entity with the id has a direction.
C17_Step ==
    C17_FirstCannotTurn
    => LET later == {i \in IdMatches(entities, heap, call'.entity_id) :
                        HasDirection(heap[entities[i]])}
       IN /\ ret' = (later # {})
          /\ entities' = entities
          /\ later = {} => heap' = heap
          /\ later # {}
             => /\ heap'[entities[Min(later)]].direction = call'.direction
                /\ Len(heap') = Len(heap)
                /\ \A r \in (1..Len(heap)) \ {entities[Min(later)]} : heap'[r] = heap[r]

\* C17 amended, over every step of rotate_entity whose first entity with
\* the id has no direction (C17_Step).
C17_FirstWithDirection == [][C17_Step]_vars

\* C17 witness: rotate_entity has returned True and turned the second
\* entity, an inserter, whose id the first entity, a chest, has as well.
C17_Witness ==
    /\ call.op = "rotate_entity"
    /\ ret = TRUE
    /\ call.direction = 2
    /\ Len(entities) = 2
    /\ heap[entities[1]].id = call.entity_id
    /\ ~HasDirection(heap[entities[1]])
    /\ heap[entities[2]].id = call.entity_id
    /\ HasDirection(heap[entities[2]])
    /\ heap[entities[2]].direction = 2

\* C18, as far as editor.py decides it.  move_entity builds the replacement
\* from entity.to_dict(); the claim holds if to_dict() hands the id on to
\* the constructor, as to_dict above does.  Then, after a move_entity(id, dx1,
\* dy1) that returned True, move_entity(id, dx2, dy2) returns True and leaves
\* the entity at the position it had before the first call plus (dx1 + dx2,
\* dy1 + dy2), and remove_entity(id) returns True and removes it.
C18_Step ==
    (call.op = "move_entity" /\ ret = TRUE)
    => LET i == Min(IdMatches(entities, heap, call.entity_id))
           original == <<heap[entities[i]].position[1] - call.dx,
                         heap[entities[i]].position[2] - call.dy>>
       IN /\ IdMatches(entities, heap, call.entity_id) # {}
          /\ (call'.op = "move_entity" /\ call'.entity_id = call.entity_id)
             => /\ ret' = TRUE
                /\ heap'[entities'[i]].id = call.entity_id
                /\ heap'[entities'[i]].position =
                      <<original[1] + call.dx + call'.dx, original[2] + call.dy + call'.dy>>
          /\ (call'.op = "remove_entity" /\ call'.entity_id = call.entity_id)
             => /\ ret' = TRUE
                /\ Objects(entities', heap') = RemoveAt(Objects(entities, heap), i)

C18_IdKept == [][C18_Step]_vars

\* C19 as stated: when the loop "S = find_entities(t); for e in S:
\* remove_entity(e.id)" is through, no entity of the blueprint has the name
\* t, every entity with another name is still there, in the order it had,
\* and the blueprint has len(S) entities fewer.
C19_AsStated ==
    filter_done
    => LET t == loop[1].entity_type
           before == loop[1].before
       IN /\ \A i \in 1..Len(entities) : heap[entities[i]].name # t
          /\ Objects(entities, heap) = SelectSeq(before, LAMBDA e : e.name # t)
          /\ Len(entities) = Len(before) - Len(HeldList)

\* C20: over every operation of the BlueprintEditor the entity list grows by
\* one with add_entity, shrinks by one with a remove_entity that returns True
\* and keeps its length otherwise; the tile list grows by one tile at its
\* end with add_tile and is otherwise left as it is, so that no tile is ever
\* removed or moved.  The lengths are then the initial ones plus the
\* add_entity calls less the remove_entity calls that returned True, and plus
\* the add_tile calls.
C20_Step ==
    /\ call'.op = "add_entity"
       => Len(entities') = Len(entities) + 1 /\ tiles' = tiles
    /\ call'.op = "remove_entity"
       => /\ Len(entities') = Len(entities) - (IF ret' THEN 1 ELSE 0)
          /\ tiles' = tiles
    /\ call'.op = "add_tile"
       => /\ Len(entities') = Len(entities)
          /\ Len(tiles') = Len(tiles) + 1
          /\ SubSeq(tiles', 1, Len(tiles)) = tiles
          /\ tiles'[Len(tiles')] = call'.tile
    /\ call'.op \in {"move_entity", "rotate_entity", "set_metadata", "find_entities",
                     "validate", "get_stats", "to_string"}
       => Len(entities') = Len(entities) /\ tiles' = tiles

\* C20, over every step: the counts of entities and tiles move with
\* add_entity, remove_entity and add_tile alone (C20_Step).
C20_Counts == [][C20_Step]_vars

\* C20 witness: remove_entity has returned True and left one of two
\* entities, beside a tile.
C20_Witness ==
    /\ call.op = "remove_entity"
    /\ ret = TRUE
    /\ Len(entities) = 1
    /\ Len(tiles) = 1
    /\ IdMatches(entities, heap, call.entity_id) # {}

====
